---- MODULE Spec2Model ----
(***************************************************************************)
(* Model of the Garnet/Simple network configuration layer                  *)
(*   gem5/configs/network/Network.py      (define_options, create_network, *)
(*                                          init_network)                  *)
(*   gem5/src/mem/ruby/network/garnet2.0/GarnetNetwork.py (parameters)     *)
(* The configuration script is one sequential thread of control: the       *)
(* options are parsed, create_network instantiates the Network, the        *)
(* topology builder fills routers and links, init_network copies the       *)
(* options onto the Network and builds the network interfaces.             *)
(***************************************************************************)
EXTENDS Integers, Sequences, FiniteSets, TLC

VARIABLES argv, controllers, options, pc, network, classes, errors

vars == <<argv, controllers, options, pc, network, classes, errors>>

----------------------------------------------------------------------------
(* Bounds of the model *)

\* the topology builder appends at most this many external links
MaxExtLinks == 2

----------------------------------------------------------------------------
(* Option schema: define_options *)

Omitted == "<omitted>"
None == "None"
NULL == "NULL"
NetworkChoices == {"simple", "garnet2.0"}

RoutingChoices == {"table", "xy", "turn_model", "random", "west_first", "ugal"}

DefaultNetwork == "simple"

DefaultRoutingAlgorithm == "table"

\* what may be typed after --network / --routing-algorithm
NetworkArgs == NetworkChoices \cup {Omitted, "garnet"}

RoutingArgs == RoutingChoices \cup {Omitted, "adaptive"}

Topologies == {"Crossbar", "Mesh_XY"}

MeshRowsArgs == {0, 2, 3}

LinkWidthArgs == {4, 12, 64, 128}

VcsPerVnetArgs == {0, 4}

\* the deadlock-avoidance options: the defaults of define_options, and two
\* settings away from the defaults with pairwise different thresholds
DeadlockArgs ==
  { [enable_spin_scheme |-> 0, dd_thresh |-> 300, max_turn_capacity |-> 100,
     enable_sb_placement |-> 0, enable_variable_dd |-> 0,
     enable_rotating_priority |-> 0, enable_fbfly_vc_partition |-> 0,
     enable_dfly_dlock_avoidance |-> 0, staleness_thresh |-> 5,
     enable_escape_vc |-> 0],
    [enable_spin_scheme |-> 1, dd_thresh |-> 700, max_turn_capacity |-> 40,
     enable_sb_placement |-> 0, enable_variable_dd |-> 1,
     enable_rotating_priority |-> 0, enable_fbfly_vc_partition |-> 1,
     enable_dfly_dlock_avoidance |-> 0, staleness_thresh |-> 9,
     enable_escape_vc |-> 1],
    [enable_spin_scheme |-> 0, dd_thresh |-> 20, max_turn_capacity |-> 60,
     enable_sb_placement |-> 1, enable_variable_dd |-> 0,
     enable_rotating_priority |-> 1, enable_fbfly_vc_partition |-> 0,
     enable_dfly_dlock_avoidance |-> 1, staleness_thresh |-> 2,
     enable_escape_vc |-> 0] }

DeadlockKnobs ==
  {"enable_spin_scheme", "dd_thresh", "max_turn_capacity",
   "enable_sb_placement", "enable_variable_dd", "enable_rotating_priority",
   "enable_escape_vc", "enable_dfly_dlock_avoidance",
   "enable_fbfly_vc_partition", "staleness_thresh"}

\* the command lines the model draws from
CommandLines ==
  { [network |-> n, routing_algorithm |-> r, topology |-> t,
     mesh_rows |-> m, link_width_bits |-> w, vcs_per_vnet |-> v,
     buffers_per_ctrl_vc |-> 1, buffers_per_data_vc |-> 5,
     garnet_deadlock_threshold |-> 500000,
     network_fault_model |-> f,
     enable_spin_scheme |-> d.enable_spin_scheme,
     dd_thresh |-> d.dd_thresh,
     max_turn_capacity |-> d.max_turn_capacity,
     enable_sb_placement |-> d.enable_sb_placement,
     enable_variable_dd |-> d.enable_variable_dd,
     enable_rotating_priority |-> d.enable_rotating_priority,
     enable_fbfly_vc_partition |-> d.enable_fbfly_vc_partition,
     enable_dfly_dlock_avoidance |-> d.enable_dfly_dlock_avoidance,
     staleness_thresh |-> d.staleness_thresh,
     enable_escape_vc |-> d.enable_escape_vc] :
       n \in NetworkArgs, r \in RoutingArgs, t \in Topologies,
       m \in MeshRowsArgs, w \in LinkWidthArgs, v \in VcsPerVnetArgs,
       f \in BOOLEAN, d \in DeadlockArgs }

\* number of controllers the system attaches, one router each
RouterCounts == {9, 10}

NoOptions == [network |-> Omitted]

NoNetwork == [type |-> None]

NoClasses == <<>>

----------------------------------------------------------------------------
(* optparse: a "choice" option outside its choices is a usage error;        *)
(* an omitted option takes its default                                      *)

ChoiceOk(arg, choices) == arg = Omitted \/ arg \in choices

OptionValue(arg, default) == IF arg = Omitted THEN default ELSE arg

parse_args ==
  /\ pc = "start"
  /\ IF /\ ChoiceOk(argv.network, NetworkChoices)
        /\ ChoiceOk(argv.routing_algorithm, RoutingChoices)
       THEN /\ options' = [argv EXCEPT
                   !.network = OptionValue(argv.network, DefaultNetwork),
                   !.routing_algorithm =
                      OptionValue(argv.routing_algorithm,
                                  DefaultRoutingAlgorithm)]
            /\ pc' = "parsed"
            /\ errors' = errors
       ELSE /\ options' = options
            /\ pc' = "usage_error"
            /\ errors' = errors \cup {"OptionValueError"}
  /\ UNCHANGED <<argv, controllers, network, classes>>

----------------------------------------------------------------------------
(* Network variant selector and instantiation: create_network *)

\* slip: the simple family is given the Garnet interface class
NetworkClasses_SimpleWithInterface(family) ==
  IF family = "garnet2.0"
    THEN [NetworkClass |-> "GarnetNetwork", IntLinkClass |-> "GarnetIntLink",
          ExtLinkClass |-> "GarnetExtLink", RouterClass |-> "GarnetRouter",
          InterfaceClass |-> "GarnetNetworkInterface"]
    ELSE [NetworkClass |-> "SimpleNetwork", IntLinkClass |-> "SimpleIntLink",
          ExtLinkClass |-> "SimpleExtLink", RouterClass |-> "Switch",
          InterfaceClass |-> "GarnetNetworkInterface"]

NetworkClasses(family) ==
  IF family = "garnet2.0"
    THEN [NetworkClass |-> "GarnetNetwork", IntLinkClass |-> "GarnetIntLink",
          ExtLinkClass |-> "GarnetExtLink", RouterClass |-> "GarnetRouter",
          InterfaceClass |-> "GarnetNetworkInterface"]
    ELSE [NetworkClass |-> "SimpleNetwork", IntLinkClass |-> "SimpleIntLink",
          ExtLinkClass |-> "SimpleExtLink", RouterClass |-> "Switch",
          InterfaceClass |-> None]

\* a GarnetNetwork as constructed at line 152: the declared parameter
\* defaults, the topology and the four empty collections
GarnetNetwork(topology) ==
  [type |-> "GarnetNetwork", topology |-> topology,
   routers |-> <<>>, ext_links |-> <<>>, int_links |-> <<>>, netifs |-> <<>>,
   num_rows |-> 0, ni_flit_size |-> 16, vcs_per_vnet |-> 4,
   buffers_per_data_vc |-> 5, buffers_per_ctrl_vc |-> 1,
   routing_algorithm |-> 0,
   enable_fault_model |-> FALSE, fault_model |-> NULL,
   garnet_deadlock_threshold |-> 50000,
   enable_spin_scheme |-> 0, dd_thresh |-> 300, max_turn_capacity |-> 100,
   enable_sb_placement |-> 0, enable_variable_dd |-> 0,
   staleness_thresh |-> 5, enable_dfly_dlock_avoidance |-> 0,
   enable_fbfly_vc_partition |-> 0, enable_escape_vc |-> 0,
   enable_rotating_priority |-> 0,
   setup_buffers_called |-> FALSE]

\* a SimpleNetwork as constructed at line 152: the topology and the four
\* empty collections; it has none of the Garnet parameters
SimpleNetwork(topology) ==
  [type |-> "SimpleNetwork", topology |-> topology,
   routers |-> <<>>, ext_links |-> <<>>, int_links |-> <<>>, netifs |-> <<>>,
   setup_buffers_called |-> FALSE]

Instantiate(NetworkClass, topology) ==
  IF NetworkClass = "GarnetNetwork" THEN GarnetNetwork(topology)
                                    ELSE SimpleNetwork(topology)

create_network ==
  /\ pc = "parsed"
  /\ classes' = NetworkClasses(options.network)
  /\ network' = Instantiate(classes'.NetworkClass, options.topology)
  /\ pc' = "created"
  /\ UNCHANGED <<argv, controllers, options, errors>>

----------------------------------------------------------------------------
(* Topology builder (configs/topologies, called between create_network and  *)
(* init_network by the Ruby configuration script)                           *)

\* slip: only checks that there are at least as many routers as rows
MeshRowsOk_RangeOnly(rows, num_routers) == rows > 0 => rows <= num_routers

MeshRowsOk(rows, num_routers) == rows > 0 => num_routers % rows = 0

Building == pc \in {"created", "initialized"}

makeTopology ==
  /\ Building
  /\ network.routers = <<>>
  /\ IF MeshRowsOk(options.mesh_rows, controllers)
       THEN /\ network' = [network EXCEPT !.routers =
                   [i \in 1..controllers |->
                      [type |-> classes.RouterClass, router_id |-> i - 1]]]
            /\ UNCHANGED <<pc, errors>>
       ELSE /\ pc' = "topology_error"
            /\ errors' = errors \cup {"TopologyMismatch"}
            /\ UNCHANGED network
  /\ UNCHANGED <<argv, controllers, options, classes>>

addExtLink ==
  /\ Building
  /\ network.routers # <<>>
  /\ Len(network.ext_links) < MaxExtLinks
  /\ network' = [network EXCEPT !.ext_links =
         Append(@, [type |-> classes.ExtLinkClass, link_id |-> Len(@)])]
  /\ UNCHANGED <<argv, controllers, options, pc, classes, errors>>

----------------------------------------------------------------------------
(* Network assembler: init_network *)

\* slip: the two thresholds are copied crosswise
CopyGarnetOptions_SwappedThresholds(opt, net) ==
  [net EXCEPT
     !.num_rows = opt.mesh_rows,
     !.vcs_per_vnet = opt.vcs_per_vnet,
     !.buffers_per_ctrl_vc = opt.buffers_per_ctrl_vc,
     !.buffers_per_data_vc = opt.buffers_per_data_vc,
     !.ni_flit_size = opt.link_width_bits \div 8,
     !.garnet_deadlock_threshold = opt.garnet_deadlock_threshold,
     !.enable_spin_scheme = opt.enable_spin_scheme,
     !.dd_thresh = opt.staleness_thresh,
     !.max_turn_capacity = opt.max_turn_capacity,
     !.enable_sb_placement = opt.enable_sb_placement,
     !.enable_variable_dd = opt.enable_variable_dd,
     !.staleness_thresh = opt.dd_thresh,
     !.enable_dfly_dlock_avoidance = opt.enable_dfly_dlock_avoidance,
     !.enable_fbfly_vc_partition = opt.enable_fbfly_vc_partition,
     !.enable_escape_vc = opt.enable_escape_vc,
     !.enable_rotating_priority = opt.enable_rotating_priority]

\* lines 160-176: the Garnet parameters taken from the options; the
\* division of two ints is the floor division of the interpreter the
\* script runs under, and line 173 is a comparison without effect
CopyGarnetOptions(opt, net) ==
  [net EXCEPT
     !.num_rows = opt.mesh_rows,
     !.vcs_per_vnet = opt.vcs_per_vnet,
     !.buffers_per_ctrl_vc = opt.buffers_per_ctrl_vc,
     !.buffers_per_data_vc = opt.buffers_per_data_vc,
     !.ni_flit_size = opt.link_width_bits \div 8,
     !.garnet_deadlock_threshold = opt.garnet_deadlock_threshold,
     !.enable_spin_scheme = opt.enable_spin_scheme,
     !.dd_thresh = opt.dd_thresh,
     !.max_turn_capacity = opt.max_turn_capacity,
     !.enable_sb_placement = opt.enable_sb_placement,
     !.enable_variable_dd = opt.enable_variable_dd,
     !.staleness_thresh = opt.staleness_thresh,
     !.enable_dfly_dlock_avoidance = opt.enable_dfly_dlock_avoidance,
     !.enable_fbfly_vc_partition = opt.enable_fbfly_vc_partition,
     !.enable_escape_vc = opt.enable_escape_vc,
     !.enable_rotating_priority = opt.enable_rotating_priority]

\* slip: west_first and random numbered in the order of the option's choices
RoutingAlgorithmId_ChoiceOrder(name) ==
  IF name = "table" THEN 0
  ELSE IF name = "xy" THEN 1
  ELSE IF name = "random" THEN 2
  ELSE IF name = "west_first" THEN 3
  ELSE IF name = "ugal" THEN 4
  ELSE 0

\* lines 178-189
RoutingAlgorithmId(name) ==
  IF name = "table" THEN 0
  ELSE IF name = "xy" THEN 1
  ELSE IF name = "west_first" THEN 2
  ELSE IF name = "random" THEN 3
  ELSE IF name = "ugal" THEN 4
  ELSE 0

\* slip: the last external link gets no interface
BuildNetifs_OneShort(InterfaceClass, ext_links) ==
  [k \in 1..(Len(ext_links) - 1) |-> [type |-> InterfaceClass, id |-> k - 1]]

\* slip: ids counted from 1
BuildNetifs_OneBased(InterfaceClass, ext_links) ==
  [k \in 1..Len(ext_links) |-> [type |-> InterfaceClass, id |-> k]]

\* slip: interfaces only built when the list holds more than one link
BuildNetifs_SkipSingle(InterfaceClass, ext_links) ==
  IF Len(ext_links) = 1 THEN <<>>
  ELSE [k \in 1..Len(ext_links) |-> [type |-> InterfaceClass, id |-> k - 1]]

\* lines 195-196: enumerate counts from 0
BuildNetifs(InterfaceClass, ext_links) ==
  [k \in 1..Len(ext_links) |-> [type |-> InterfaceClass, id |-> k - 1]]

\* attribute assignment: obj.name = value
SetAttr(obj, name, value) ==
  [a \in DOMAIN obj \cup {name} |-> IF a = name THEN value ELSE obj[a]]

\* the Network when control reaches line 199
Assembled(opt, net, InterfaceClass) ==
  LET n1 == IF opt.network = "garnet2.0" THEN CopyGarnetOptions(opt, net)
                                         ELSE net
      n2 == SetAttr(n1, "routing_algorithm",
                    RoutingAlgorithmId(opt.routing_algorithm))
      n3 == IF opt.network = "simple"
              THEN [n2 EXCEPT !.setup_buffers_called = TRUE]
              ELSE n2
  IN  IF InterfaceClass # None
        THEN [n3 EXCEPT !.netifs = BuildNetifs(InterfaceClass, n3.ext_links)]
        ELSE n3

init_network ==
  /\ pc = "created"
  /\ LET net == Assembled(options, network, classes.InterfaceClass)
     IN  IF options.network_fault_model
           THEN IF options.network = "garnet2.0"
                  THEN /\ network' = [net EXCEPT
                              !.enable_fault_model = TRUE,
                              !.fault_model = "FaultModel"]
                       /\ pc' = "initialized"
                       /\ errors' = errors
                  ELSE /\ network' = net
                       /\ pc' = "assert_failed"
                       /\ errors' = errors \cup {"AssertionError"}
           ELSE /\ network' = net
                /\ pc' = "initialized"
                /\ errors' = errors
  /\ UNCHANGED <<argv, controllers, options, classes>>

----------------------------------------------------------------------------
(* The assembled Network is handed to the simulation engine; nothing is     *)
(* added to its collections afterwards                                      *)

instantiate ==
  /\ pc = "initialized"
  /\ network.routers # <<>>
  /\ pc' = "final"
  /\ UNCHANGED <<argv, controllers, options, network, classes, errors>>

----------------------------------------------------------------------------

Init ==
  /\ argv \in CommandLines
  /\ controllers \in RouterCounts
  /\ options = NoOptions
  /\ pc = "start"
  /\ network = NoNetwork
  /\ classes = NoClasses
  /\ errors = {}

Next ==
  \/ parse_args
  \/ create_network
  \/ makeTopology
  \/ addExtLink
  \/ init_network
  \/ instantiate

Spec == Init /\ [][Next]_vars

----------------------------------------------------------------------------
(* Properties *)

Garnet == options.network = "garnet2.0"

Simple == options.network = "simple"

\* init_network has run (to its end or to the failed assertion) and the
\* script has not been aborted since
InitNetworkRan == pc \in {"initialized", "assert_failed", "final"}

\* a step of init_network
InitNetworkStep == pc = "created" /\ pc' \in {"initialized", "assert_failed"}

\* a step of init_network that returns
InitNetworkReturns == pc = "created" /\ pc' = "initialized"

\* the documented encoding of the routing algorithms
DocumentedRoutingNames == {"table", "xy", "west_first", "random", "ugal"}

DocumentedRoutingId ==
  [name \in DocumentedRoutingNames |->
     CASE name = "table" -> 0
       [] name = "xy" -> 1
       [] name = "west_first" -> 2
       [] name = "random" -> 3
       [] name = "ugal" -> 4]

C2_NetifsLength ==
  [][InitNetworkReturns =>
       IF Garnet THEN Len(network'.netifs) = Len(network'.ext_links)
                 ELSE Len(network'.netifs) = 0]_vars

C2_Witness ==
  /\ pc = "initialized"
  /\ Garnet
  /\ Len(network.ext_links) = 2
  /\ Len(network.netifs) = 2

\* C3: for the garnet2.0 family every interface built by init_network has
\* the id of its position in netifs (counted from 0), which is the index of
\* its external link in ext_links; the ids are exactly 0..len(ext_links)-1.
C3_InterfaceIds ==
  [][(InitNetworkReturns /\ Garnet) =>
       /\ \A k \in DOMAIN network'.netifs :
             /\ network'.netifs[k].id = k - 1
             /\ k \in DOMAIN network'.ext_links
             /\ network'.ext_links[k].link_id = network'.netifs[k].id
       /\ {network'.netifs[k].id : k \in DOMAIN network'.netifs}
             = 0..(Len(network'.ext_links) - 1)
       /\ \A j, k \in DOMAIN network'.netifs :
             network'.netifs[j].id = network'.netifs[k].id => j = k]_vars

C3_Witness ==
  /\ pc = "initialized"
  /\ Garnet
  /\ Len(network.netifs) = 2
  /\ network.netifs[1].id = 0
  /\ network.netifs[2].id = 1

\* C4 (as claimed): with the fault model requested for the simple family,
\* init_network rejects the configuration and leaves the Network exactly as
\* it was before the call.
C4_RejectedUntouched ==
  [][(InitNetworkStep /\ options.network_fault_model /\ Simple) =>
       /\ pc' = "assert_failed"
       /\ network' = network]_vars

\* C5 (as claimed): the flit size set by init_network is the link width in
\* bits divided by 8, a positive whole number of bytes, and a link width
\* that is not a multiple of 8 is never accepted.
C5_FlitSizeWholeBytes ==
  (pc \in {"initialized", "final"} /\ Garnet) =>
    /\ options.link_width_bits % 8 = 0
    /\ network.ni_flit_size * 8 = options.link_width_bits
    /\ network.ni_flit_size > 0

\* the classes documented for the two families
DocumentedClasses ==
  [family \in NetworkChoices |->
     IF family = "garnet2.0"
       THEN <<"GarnetNetwork", "GarnetIntLink", "GarnetExtLink",
              "GarnetRouter", "GarnetNetworkInterface">>
       ELSE <<"SimpleNetwork", "SimpleIntLink", "SimpleExtLink",
              "Switch", None>>]

\* C6: a Network object exists only for a family of the closed enum, and
\* then create_network has returned the Garnet classes for garnet2.0 and
\* the Simple classes without an interface class for simple; any other
\* family value is a usage error before a Network is instantiated.
C6_CreateNetworkTotal ==
  /\ network # NoNetwork =>
        /\ options.network \in NetworkChoices
        /\ <<classes.NetworkClass, classes.IntLinkClass,
              classes.ExtLinkClass, classes.RouterClass,
              classes.InterfaceClass>> = DocumentedClasses[options.network]
        /\ network.type = classes.NetworkClass
  /\ argv.network \notin (NetworkChoices \cup {Omitted}) =>
        /\ network = NoNetwork
        /\ pc \in {"start", "usage_error"}

C6_Witness ==
  /\ pc = "created"
  /\ Simple
  /\ network.type = "SimpleNetwork"
  /\ classes.InterfaceClass = None

\* the constraints of the validator that the modelled options can violate
Violations(opt) ==
  (IF opt.network_fault_model /\ opt.network # "garnet2.0"
     THEN {"IncompatibleFeature"} ELSE {})
  \cup (IF opt.vcs_per_vnet < 1 THEN {"OutOfRange"} ELSE {})

\* the error kind a raised error stands for
ErrorKind(e) == IF e = "AssertionError" THEN "IncompatibleFeature" ELSE e

\* C7 (as claimed): once validation has run, every violated constraint of
\* the configuration has been reported, not only the first one.
C7_AllViolationsReported ==
  InitNetworkRan => Violations(options) \subseteq {ErrorKind(e) : e \in errors}

C9_EitherOrder ==
  (pc = "final" /\ Garnet) =>
    /\ Len(network.netifs) = Len(network.ext_links)
    /\ \A k \in DOMAIN network.netifs : network.netifs[k].id = k - 1

\* C9 (amended): init_network builds one interface per external link
\* present when it is called, index-matched, and an external link appended
\* afterwards leaves netifs as it is, so only a builder that has finished
\* before init_network yields one interface per link.
C9_BuilderFirst ==
  [][/\ (InitNetworkReturns /\ Garnet) =>
          /\ Len(network'.netifs) = Len(network.ext_links)
          /\ \A k \in DOMAIN network'.netifs : network'.netifs[k].id = k - 1
     /\ (pc = "initialized" /\ Garnet) =>
          /\ network'.netifs = network.netifs
          /\ Len(network'.ext_links) > Len(network.ext_links) =>
                Len(network'.netifs) < Len(network'.ext_links)]_vars

C9_Witness ==
  /\ pc = "final"
  /\ Garnet
  /\ Len(network.netifs) = 1
  /\ Len(network.ext_links) = 2

\* C10 (as claimed): after init_network every knob of the
\* deadlock-avoidance bundle on the Network equals its option, for every
\* option set.
C10_KnobsCopiedAlways ==
  InitNetworkRan =>
    \A k \in DeadlockKnobs : k \in DOMAIN network /\ network[k] = options[k]

\* C10 (amended): after init_network every knob of the deadlock-avoidance
\* bundle on the Network equals its option when the family is garnet2.0;
\* for the simple family none of the knobs is set.
C10_KnobsCopiedGarnet ==
  InitNetworkRan =>
    \A k \in DeadlockKnobs :
       IF Garnet THEN k \in DOMAIN network /\ network[k] = options[k]
                 ELSE k \notin DOMAIN network

C10_Witness ==
  /\ pc = "initialized"
  /\ Garnet
  /\ options.dd_thresh = 700
  /\ network.dd_thresh = 700
  /\ network.staleness_thresh = 9
  /\ network.enable_escape_vc = 1

====
